---- MODULE Spec2Model ----
(***************************************************************************)
(* The scan engine of directory-analyzer: DirectoryScanner (scanner.py),   *)
(* the filesystem helpers it calls (utils.py), the classifier aggregation  *)
(* (classifier.py) and the part of main() that drives one scan (main.py).  *)
(*                                                                         *)
(* Thread 0 is the thread that calls scan(); threads 1..max_workers are    *)
(* the ThreadPoolExecutor's workers.  A step of a thread is one access to  *)
(* state shared between threads, together with the thread-local work that *)
(* precedes it.                                                            *)
(***************************************************************************)
EXTENDS Integers, Sequences, FiniteSets, TLC

\* ------------------------------------------------------------------ bounds

\* The longest list of FileInfo handed to the aggregations.
MaxListLen == 3

\* Largest max_workers a caller passes to scan().
MaxWorkers == 2

\* Largest number of additional upper-case ".JPG" files placed in the root.
MaxExtraFiles == 1

\* Largest number of files a scan in parallel mode accepts.
MaxParallelFiles == 3

\* ------------------------------------------------------ the directory tree

\* The directories of the test suite's setUp: root(1), subdir1(2),
\* subdir2(3), nested(4).
Root == 1

Dirs == {1, 2, 3, 4}

\* The files that lie directly in d: root.txt; image.jpg, document.pdf;
\* video.mp4; data.csv.
SampleFiles(d) ==
    CASE d = 1 -> << [name |-> "root", suffix |-> ".txt", st_size |-> 1000] >>
      [] d = 2 -> << [name |-> "image", suffix |-> ".jpg", st_size |-> 5000],
                     [name |-> "document", suffix |-> ".pdf", st_size |-> 3000] >>
      [] d = 3 -> << [name |-> "video", suffix |-> ".mp4", st_size |-> 10000] >>
      [] OTHER -> << [name |-> "data", suffix |-> ".csv", st_size |-> 2000] >>

\* An additional file of the root whose suffix is written in upper case.
ExtraFile(k) == [name |-> "PHOTO", suffix |-> ".JPG", st_size |-> 7000 * k]

RECURSIVE ExtraFiles(_)
ExtraFiles(n) == IF n = 0 THEN <<>> ELSE Append(ExtraFiles(n - 1), ExtraFile(n))

\* str.lower() on the suffixes and extensions that occur in the tree, in
\* filters and in category sets.
Lower(s) ==
    CASE s = ".JPG" -> ".jpg"
      [] s = ".PDF" -> ".pdf"
      [] s = ".PNG" -> ".png"
      [] s = ".XYZ" -> ".xyz"
      [] s = "JPG" -> "jpg"
      [] s = "PDF" -> "pdf"
      [] s = "XYZ" -> "xyz"
      [] OTHER -> s

\* An extension in lower case with its leading dot: the normalization of
\* ScanOptions.__post_init__ and of add_custom_category.
NormalizeExtension(ext) ==
    LET normalized_ext == Lower(ext)
    IN CASE normalized_ext = "jpg" -> ".jpg"
         [] normalized_ext = "pdf" -> ".pdf"
         [] normalized_ext = "xyz" -> ".xyz"
         [] OTHER -> normalized_ext

\* ---------------------------------------------------------------- helpers

RECURSIVE SumSeq(_)
SumSeq(s) == IF s = <<>> THEN 0 ELSE Head(s) + SumSeq(Tail(s))

Range(s) == {s[i] : i \in DOMAIN s}

\* error_message = None.
NoError == "None"

\* ------------------------------------------------------------------ state

VARIABLES
    \* the filesystem and the Python runtime
    extra_files,        \* number of extra ".JPG" files in the root
    denied,             \* directories whose listing raises PermissionError
    eager_iterdir,      \* TRUE: Path.iterdir() lists when called (3.13);
                        \* FALSE: it returns a generator that lists on its
                        \* first next() (3.11, 3.12)
    fail_at,            \* [dir, k]: processing the k-th listed file of dir
                        \* raises an unexpected Exception (dir = 0: none)
    handler_raises,     \* whether the handler of line 98 itself raises, and
                        \* where: "no", "before_append" (formatting the message,
                        \* lines 100-103) or "after_append" (building the
                        \* record, lines 106-112)
    vanished,           \* names of the files whose stat() raises OSError: they
                        \* were listed and are gone when they are sized
    nested_in,          \* the directory that holds nested: subdir2 in the
                        \* test suite's tree
    hidden,             \* directories whose name starts with "."
    traverse_fail,      \* the directory whose loop over its subdirectories
                        \* raises an unexpected Exception on its first
                        \* descent, as a RecursionError does (0: none)
    \* ScanOptions and the arguments of scan()
    target_path,        \* what the path is on disk: "dir", "file", "missing"
    include_hidden, min_size_bytes, top_count, output_format,
    extension_filter, use_parallel, max_workers,
    made,               \* how the construction of the ScanOptions ended
    \* ContentClassifier
    categories,         \* self.categories, in insertion order
    registered,         \* the custom category registered last, as it was given
    classified,         \* the last call of classify_file and its result
    file_infos,         \* a list of FileInfo handed to the aggregations
    category_stats,     \* what get_category_statistics(file_infos) returned
    category_counts,    \* what get_file_count_by_category(file_infos) returned
    dominant_category,  \* what get_dominant_category(file_infos) returned
    \* DirectoryScanner fields
    error_directories, total_directories, total_files, total_size, all_files,
    \* scan() and the execution strategy
    pc,                 \* where the thread that called scan() is
    stack,              \* frames of the recursive generator get_all_directories
    all_directories,    \* list(self.get_all_directories(...))
    queue,              \* directories not yet handed to scan_single_directory
    thread,             \* thread[w]: the scan_single_directory call of thread w
    finished,           \* results of completed futures not yet collected
    raised,             \* directories of completed futures not yet collected
                        \* that hold an exception instead of a result
    results,            \* the strategy's result list
    scanned,            \* every DirectoryInfo scan_single_directory returned
    interrupted,        \* a KeyboardInterrupt was raised in the calling thread
    outcome,            \* how scan() ended
    returned,           \* the list scan() returned
    error_log,          \* the paths handed to write_error_log
    log_file,           \* what became of the error log file: "absent",
                        \* "written", or "failed" when open() or write() raised
    \* the caller
    statistics, error_count, exit_code,
    sequential_results, \* the result of an earlier sequential scan
    rerun,              \* TRUE once a second scanner was constructed
    first_call          \* what the first of two scan() calls on one scanner left

environment == <<extra_files, denied, eager_iterdir, fail_at, handler_raises, vanished, nested_in, hidden,
                 traverse_fail>>

options == <<target_path, include_hidden, min_size_bytes, top_count,
             output_format, extension_filter, made>>

arguments == <<use_parallel, max_workers>>

classifier == <<categories, registered, classified, file_infos, category_stats,
                category_counts, dominant_category>>

scanner == <<error_directories, total_directories, total_files, total_size, all_files>>

enumeration == <<stack, all_directories>>

caller == <<statistics, error_count, exit_code, sequential_results, rerun,
            first_call>>

vars == <<extra_files, denied, eager_iterdir, fail_at, handler_raises, vanished, nested_in, hidden,
          traverse_fail,
          target_path, include_hidden, min_size_bytes, top_count,
          output_format, extension_filter, made, use_parallel, max_workers,
          categories, registered, classified, file_infos, category_stats,
          category_counts, dominant_category, error_directories,
          total_directories, total_files, total_size, all_files, pc, stack,
          all_directories, queue, thread, finished, raised, results, scanned,
          interrupted, outcome, returned, error_log, log_file, statistics, error_count,
          exit_code, sequential_results, rerun, first_call>>

\* -------------------------------------------------------------- classifier

\* ContentClassifier.CATEGORY_MAPPINGS, in insertion order.
CATEGORY_MAPPINGS ==
    << [category |-> "images", extensions |->
          {".jpg", ".jpeg", ".png", ".gif", ".bmp", ".tiff", ".webp", ".svg",
           ".raw", ".cr2", ".nef", ".arw", ".dng", ".raf", ".orf", ".rw2",
           ".pef", ".srw", ".x3f", ".ico", ".heic", ".heif", ".avif"}],
       [category |-> "videos", extensions |->
          {".mp4", ".avi", ".mov", ".mkv", ".wmv", ".flv", ".webm", ".m4v",
           ".3gp", ".mpg", ".mpeg", ".m2v", ".mts", ".ts", ".vob", ".rm",
           ".rmvb", ".asf", ".ogv", ".dv", ".f4v", ".m4p", ".divx"}],
       [category |-> "audio", extensions |->
          {".mp3", ".flac", ".wav", ".aac", ".ogg", ".m4a", ".wma", ".opus",
           ".mp2", ".aiff", ".au", ".ra", ".ac3", ".dts", ".ape", ".tak",
           ".tta", ".wv", ".mka", ".caf", ".amr", ".3ga"}],
       [category |-> "documents", extensions |->
          {".pdf", ".epub", ".mobi", ".chm", ".djvu", ".fb2", ".azw", ".azw3",
           ".azw4", ".lit", ".pdb", ".tcr", ".lrf", ".rb", ".pml", ".tr2", ".tr3"}],
       [category |-> "office", extensions |->
          {".doc", ".docx", ".xls", ".xlsx", ".ppt", ".pptx", ".md", ".txt",
           ".rtf", ".odt", ".ods", ".odp", ".odg", ".odf", ".sxw", ".sxc",
           ".sxi", ".wpd", ".wps", ".pages", ".numbers", ".key", ".tex"}],
       [category |-> "archives", extensions |->
          {".zip", ".rar", ".7z", ".tar", ".gz", ".bz2", ".xz", ".lzma",
           ".cab", ".iso", ".dmg", ".pkg", ".deb", ".rpm", ".msi", ".exe",
           ".z", ".lz", ".lzo", ".rz", ".sz", ".dz", ".tbz2", ".tgz", ".txz"}],
       [category |-> "code", extensions |->
          {".py", ".js", ".html", ".css", ".java", ".cpp", ".c", ".rs", ".go",
           ".json", ".xml", ".yaml", ".yml", ".ini", ".cfg", ".conf", ".php",
           ".rb", ".pl", ".sh", ".bat", ".ps1", ".vbs", ".lua", ".r", ".m",
           ".swift", ".kt", ".scala", ".hs", ".clj", ".fs", ".ml", ".pas"}],
       [category |-> "system", extensions |->
          {".exe", ".dll", ".sys", ".drv", ".ocx", ".cpl", ".scr", ".com",
           ".app", ".dmg", ".pkg", ".deb", ".rpm", ".so", ".dylib", ".ko",
           ".bin", ".run", ".bundle", ".framework", ".kext", ".prefpane"}] >>

\* The loop of classify_file over the entries table[i..]: the first category whose
\* extension set holds the extension, "other" when none does.
RECURSIVE FirstCategory(_, _, _)
FirstCategory(table, extension, i) ==
    IF i > Len(table) THEN "other"
    ELSE IF extension \in table[i].extensions THEN table[i].category
         ELSE FirstCategory(table, extension, i + 1)

\* classify_file that returns the last category holding the extension.
LastCategory(suffix) ==
    LET extension == Lower(suffix)
        hits == {i \in DOMAIN categories : extension \in categories[i].extensions}
    IN IF hits = {} THEN "other"
       ELSE categories[CHOOSE i \in hits : \A j \in hits : j <= i].category

\* dict[name] = extensions: an existing key keeps its place, a new key goes
\* to the end.
SetItem(table, name, extensions) ==
    IF \E i \in DOMAIN table : table[i].category = name
    THEN [i \in DOMAIN table |->
             IF table[i].category = name
             THEN [category |-> name, extensions |-> extensions]
             ELSE table[i]]
    ELSE Append(table, [category |-> name, extensions |-> extensions])

\* classify_file: the suffix is lowercased and looked up in self.categories.
classify_file(suffix) == FirstCategory(categories, Lower(suffix), 1)

\* The FileInfo of a file of directory d (the path is the pair <<d, name>>).
classify_file_with_info(d, file, file_size) ==
    [path |-> <<d, file.name>>, size_bytes |-> file_size,
     extension |-> Lower(file.suffix), category |-> classify_file(file.suffix)]

\* A loop that stores the size of each record under its category instead of
\* adding it.
RECURSIVE LastSizeByCategory(_)
LastSizeByCategory(files) ==
    IF files = <<>> THEN [c \in {} |-> 0]
    ELSE LET stats == LastSizeByCategory(SubSeq(files, 1, Len(files) - 1))
             file_info == files[Len(files)]
         IN [c \in (DOMAIN stats) \cup {file_info.category} |->
                IF c = file_info.category THEN file_info.size_bytes ELSE stats[c]]

\* The dict built by the loop of get_category_statistics.
RECURSIVE get_category_statistics(_)
get_category_statistics(files) ==
    IF files = <<>> THEN [c \in {} |-> 0]
    ELSE LET stats == get_category_statistics(SubSeq(files, 1, Len(files) - 1))
             file_info == files[Len(files)]
         IN [c \in (DOMAIN stats) \cup {file_info.category} |->
                (IF c \in DOMAIN stats THEN stats[c] ELSE 0)
                + (IF c = file_info.category THEN file_info.size_bytes ELSE 0)]

\* The dict built by the loop of get_file_count_by_category.
RECURSIVE get_file_count_by_category(_)
get_file_count_by_category(files) ==
    IF files = <<>> THEN [c \in {} |-> 0]
    ELSE LET counts == get_file_count_by_category(SubSeq(files, 1, Len(files) - 1))
             file_info == files[Len(files)]
         IN [c \in (DOMAIN counts) \cup {file_info.category} |->
                (IF c \in DOMAIN counts THEN counts[c] ELSE 0)
                + (IF c = file_info.category THEN 1 ELSE 0)]

\* The keys of the dict of get_category_statistics in insertion order: the
\* categories in the order in which the loop meets them first.
RECURSIVE InsertionOrder(_)
InsertionOrder(files) ==
    IF files = <<>> THEN <<>>
    ELSE LET keys == InsertionOrder(SubSeq(files, 1, Len(files) - 1))
             category == files[Len(files)].category
         IN IF category \in Range(keys) THEN keys ELSE Append(keys, category)

\* A maximum that a later item of equal size replaces.
RECURSIVE LastMaxItem(_, _, _, _)
LastMaxItem(keys, sizes, i, best) ==
    IF i > Len(keys) THEN best
    ELSE LastMaxItem(keys, sizes, i + 1,
                     IF sizes[keys[i]] >= sizes[best] THEN keys[i] ELSE best)

\* max(items, key=size) from item i on: a later item replaces the best one
\* only if its size is greater.
RECURSIVE MaxItem(_, _, _, _)
MaxItem(keys, sizes, i, best) ==
    IF i > Len(keys) THEN best
    ELSE MaxItem(keys, sizes, i + 1,
                 IF sizes[keys[i]] > sizes[best] THEN keys[i] ELSE best)

\* get_dominant_category.
get_dominant_category(files) ==
    IF files = <<>> THEN "other"
    ELSE LET category_sizes == get_category_statistics(files)
             keys == InsertionOrder(files)
         IN MaxItem(keys, category_sizes, 2, keys[1])

\* ------------------------------------------------------- filesystem helpers

\* The subdirectories of d in the order iterdir() lists them.
Children(d) ==
    IF d = Root THEN <<2, 3>>
    ELSE IF d = nested_in THEN <<4>>
    ELSE <<>>

\* What iterdir() of d holds as files, in listing order.
DiskFiles(d) ==
    SampleFiles(d) \o (IF d = Root THEN ExtraFiles(extra_files) ELSE <<>>)

\* is_accessible_directory: calls path.iterdir() and discards the result; the
\* PermissionError shows here only when iterdir() lists eagerly.
is_accessible_directory(d) == ~(d \in denied /\ eager_iterdir)

\* A listing that descends: the files of d and of every directory below it.
RECURSIVE FilesBelow(_, _)
FilesBelow(dirs, i) ==
    IF i > Len(dirs) THEN <<>>
    ELSE DiskFiles(dirs[i]) \o FilesBelow(Children(dirs[i]), 1) \o FilesBelow(dirs, i + 1)

get_files_recursive(d) == IF d \in denied THEN <<>> ELSE FilesBelow(<<d>>, 1)

\* get_direct_files: the files of d; a PermissionError/OSError of the listing
\* is logged and ends the generator.
get_direct_files(d) == IF d \in denied THEN <<>> ELSE DiskFiles(d)

\* is_hidden_directory_cross_platform, away from Windows.
is_hidden_directory_cross_platform(d) == d \in hidden

\* A listing of the subdirectories that keeps the hidden ones.
ListEverySubdirectory(d) == IF d \in denied THEN <<>> ELSE Children(d)

\* get_subdirectories: the subdirectories of d, without the hidden ones
\* unless include_hidden; a PermissionError/OSError of the listing is logged
\* and ends the generator.
get_subdirectories(d) ==
    IF d \in denied THEN <<>>
    ELSE SelectSeq(Children(d),
             LAMBDA item : include_hidden \/ ~is_hidden_directory_cross_platform(item))

\* An enumeration that does not descend below a directory whose direct files
\* sum to less than min_size_bytes.
DescendAboveThreshold(d) ==
    LET files == DiskFiles(d)
    IN IF SumSeq([i \in DOMAIN files |-> files[i].st_size]) < min_size_bytes
          \/ (traverse_fail = d /\ get_subdirectories(d) # <<>>)
       THEN <<>>
       ELSE get_subdirectories(d)

\* The loop of get_all_directories over the subdirectories of d raises an
\* unexpected Exception when it descends for the first time (lines 128-130).
TraversalFails(d) == traverse_fail = d /\ get_subdirectories(d) # <<>>

\* The subdirectories get_all_directories(d) descends into after it yielded
\* d: none when the loop raises.
Descend(d) == IF TraversalFails(d) THEN <<>> ELSE get_subdirectories(d)

\* The handler of lines 130-136 records d.
RecordTraversal(d) ==
    IF TraversalFails(d) THEN Append(error_directories, d) ELSE error_directories

\* A sizing that reports the size the file had when it was listed.
ListedSize(file) == file.st_size

\* safe_get_file_size: st_size, or 0 when stat() raises OSError.
safe_get_file_size(file) == IF file.name \in vanished THEN 0 ELSE file.st_size

\* An extension filter that compares the suffix as it is spelled.
PassesExtensionFilterAsSpelled(file) ==
    extension_filter = {} \/ file.suffix \in extension_filter

\* The extension filter of scan_single_directory, lines 75-77.
PassesExtensionFilter(file) ==
    extension_filter = {} \/ Lower(file.suffix) \in extension_filter

DirectoryInfo(d, size, count, error) ==
    [path |-> d, size_bytes |-> size, file_count |-> count, error_message |-> error]

\* ------------------------------------------------------------ scan helpers

\* The size filter of both strategies (lines 161-162, 208-209).
MeetsThreshold(result) == result.size_bytes >= min_size_bytes

ApplySizeFilter(list, result) ==
    IF MeetsThreshold(result) THEN Append(list, result) ELSE list

\* No sort: the order in which the strategy produced the records.
StrategyOrder(list) == list

\* An insertion that puts r in front of the elements of its own size.
RECURSIVE InsertBeforeEqual(_, _)
InsertBeforeEqual(sorted, r) ==
    IF sorted = <<>> THEN <<r>>
    ELSE IF Head(sorted).size_bytes > r.size_bytes
         THEN <<Head(sorted)>> \o InsertBeforeEqual(Tail(sorted), r)
         ELSE <<r>> \o sorted

\* results.sort(key=lambda x: x.size_bytes, reverse=True): a stable sort;
\* InsertDesc puts r behind every element that is at least as large.
RECURSIVE InsertDesc(_, _)
InsertDesc(sorted, r) ==
    IF sorted = <<>> THEN <<r>>
    ELSE IF Head(sorted).size_bytes >= r.size_bytes
         THEN <<Head(sorted)>> \o InsertDesc(Tail(sorted), r)
         ELSE <<r>> \o sorted

RECURSIVE SortBySizeDesc(_)
SortBySizeDesc(list) ==
    IF list = <<>> THEN <<>>
    ELSE InsertDesc(SortBySizeDesc(SubSeq(list, 1, Len(list) - 1)), list[Len(list)])

\* Frames of the generator that have no directory left are exhausted.
RECURSIVE DropExhausted(_)
DropExhausted(frames) ==
    IF frames = <<>> THEN <<>>
    ELSE IF frames[Len(frames)] = <<>>
         THEN DropExhausted(SubSeq(frames, 1, Len(frames) - 1))
         ELSE frames

\* scan() line 240.
ParallelMode == use_parallel /\ max_workers > 1

\* The threads that run scan_single_directory.
ScanThreads == IF ParallelMode THEN 1..max_workers ELSE {0}

Idle == [at |-> "idle", dir |-> 0, pos |-> 0, total_size |-> 0, file_count |-> 0, reg |-> 0]

NoStatistics ==
    [total_directories |-> 0, total_files |-> 0, total_size_bytes |-> 0,
     category_breakdown |-> [c \in {} |-> 0],
     file_count_by_category |-> [c \in {} |-> 0]]

\* ------------------------------------------------------------------- Init

NoFailure == [dir |-> 0, k |-> 0]

\* The directories get_all_directories yields from the directories dirs on,
\* starting with dirs[i].
RECURSIVE Walk(_, _)
Walk(dirs, i) ==
    IF i > Len(dirs) THEN <<>>
    ELSE <<dirs[i]>> \o Walk(Descend(dirs[i]), 1) \o Walk(dirs, i + 1)

\* The number of files of the enumerated directories that pass the extension
\* filter.
Workload ==
    LET walk == Walk(<<Root>>, 1)
    IN SumSeq([i \in DOMAIN walk |->
                 Len(SelectSeq(get_direct_files(walk[i]), PassesExtensionFilter))])

\* DirectoryScanner.__init__.
FreshScanner ==
    /\ error_directories = <<>>
    /\ total_directories = 0
    /\ total_files = 0
    /\ total_size = 0
    /\ all_files = <<>>

\* No custom category was registered, classify_file was not called.
NoRegistration == [category |-> "", extensions |-> {}, by |-> "none"]

NoClassification == [suffix |-> "", category |-> ""]

\* The aggregations were not called.
NotAggregated == [c \in {"none"} |-> -1]

\* ContentClassifier(): the built-in table.
DefaultClassifier ==
    /\ categories = CATEGORY_MAPPINGS
    /\ registered = NoRegistration
    /\ classified = NoClassification
    /\ file_infos = <<>>
    /\ category_stats = NotAggregated
    /\ category_counts = NotAggregated
    /\ dominant_category = ""

\* scan() has not returned yet on this scanner.
NotCalled ==
    [called |-> FALSE, returned |-> <<>>, error_directories |-> <<>>,
     total_directories |-> 0, total_files |-> 0, total_size |-> 0,
     all_files |-> <<>>]

\* DirectoryScanner.__init__ and the state before scan() is called.
NotStarted ==
    /\ FreshScanner
    /\ pc = "idle"
    /\ stack = <<>>
    /\ all_directories = <<>>
    /\ queue = <<>>
    /\ thread = [w \in 0..MaxWorkers |-> Idle]
    /\ finished = {}
    /\ raised = {}
    /\ results = <<>>
    /\ scanned = {}
    /\ interrupted = FALSE
    /\ outcome = "none"
    /\ returned = <<>>
    /\ error_log = <<>>
    /\ log_file = "absent"
    /\ statistics = NoStatistics
    /\ error_count = 0
    /\ exit_code = -1
    /\ sequential_results = <<>>
    /\ rerun = FALSE
    /\ first_call = NotCalled

\* A valid ScanOptions over an existing directory with the defaults of
\* top_count and output_format, a scanner constructed from it, and scan() not
\* yet called.
InitProgram ==
    /\ target_path = "dir"
    /\ top_count = 50
    /\ output_format = "text"
    /\ made = "ScanOptions"
    /\ DefaultClassifier
    /\ NotStarted

\* A tree with at most one fault (a directory below the root that cannot be
\* listed, or one unexpected failure), options and arguments; the scanner is
\* constructed and scan() not yet called.
InitScan ==
    /\ extra_files \in 0..MaxExtraFiles
    /\ denied \in {{}} \cup {{d} : d \in Dirs \ {Root}}
    /\ eager_iterdir \in BOOLEAN
    /\ fail_at \in {NoFailure} \cup
                   {[dir |-> d, k |-> k] : d \in Dirs, k \in 1..(1 + MaxExtraFiles)}
    /\ fail_at.k <= (IF fail_at.dir = 0 THEN 0 ELSE Len(DiskFiles(fail_at.dir)))
    /\ denied = {} \/ fail_at = NoFailure
    /\ denied # {} \/ ~eager_iterdir
    /\ handler_raises \in {"no", "before_append", "after_append"}
    /\ handler_raises = "no" \/ fail_at # NoFailure
    /\ vanished \in {{}, {"image"}, {"data"}}
    /\ nested_in \in {2, 3}
    /\ hidden \in {{}} \cup {{d} : d \in Dirs}
    /\ include_hidden \in BOOLEAN
    /\ hidden # {} \/ include_hidden
    /\ traverse_fail \in {0} \cup {d \in Dirs : Children(d) # <<>>}
    /\ traverse_fail = 0 \/ (denied = {} /\ fail_at = NoFailure /\ hidden = {})
    /\ min_size_bytes \in {0, 4000}
    /\ extension_filter \in {{}, {".jpg", ".pdf"}}
    /\ use_parallel \in BOOLEAN
    /\ max_workers \in 1..MaxWorkers
    /\ InitProgram

Init ==
    /\ InitScan
    /\ handler_raises = "no"
    /\ vanished = {}
    /\ nested_in = 3
    /\ hidden = {}
    /\ ParallelMode => Workload <= MaxParallelFiles

\* ---------------------------------------------------------------- actions

\* ScanOptions.__post_init__: the construction raises ValueError when the
\* target does not exist or is not a directory, when top_count is not positive
\* or when the output format is unknown; otherwise it normalizes the
\* extension filter and the object is made.
post_init ==
    /\ made = "pending"
    /\ IF \/ target_path = "missing"
          \/ target_path = "file"
          \/ top_count <= 0
          \/ output_format \notin {"text", "csv", "json"}
       THEN /\ made' = "ValueError"
            /\ UNCHANGED extension_filter
       ELSE /\ made' = "ScanOptions"
            /\ extension_filter' = {NormalizeExtension(ext) : ext \in extension_filter}
    /\ UNCHANGED <<environment, classifier, target_path, include_hidden, min_size_bytes,
                   top_count, output_format, arguments, scanner, enumeration,
                   pc, queue, thread, finished, raised, results, interrupted, outcome,
                   returned, error_log, log_file, caller, scanned>>

\* classifier.add_custom_category(category_name, extensions): the extensions
\* are normalized and stored under the name.
add_custom_category(category_name, extensions) ==
    /\ LET normalized_extensions == {NormalizeExtension(ext) : ext \in extensions}
       IN categories' = SetItem(categories, category_name, normalized_extensions)
    /\ registered' = [category |-> category_name, extensions |-> extensions,
                      by |-> "add_custom_category"]
    /\ classified' = NoClassification
    /\ UNCHANGED <<environment, options, arguments, scanner, enumeration,
                   file_infos, category_stats, category_counts, dominant_category,
                   pc, queue, thread, finished, raised, results, interrupted, outcome,
                   returned, error_log, log_file, caller, scanned>>

\* classifier.classify_file(path) for a path with the given suffix.
Classify(suffix) ==
    /\ classified' = [suffix |-> suffix, category |-> classify_file(suffix)]
    /\ UNCHANGED <<environment, options, arguments, scanner, enumeration,
                   categories, registered, file_infos, category_stats,
                   category_counts, dominant_category,
                   pc, queue, thread, finished, raised, results, interrupted, outcome,
                   returned, error_log, log_file, caller, scanned>>

\* classifier.get_category_statistics(file_infos),
\* classifier.get_file_count_by_category(file_infos) and
\* classifier.get_dominant_category(file_infos).
Aggregate ==
    /\ category_stats = NotAggregated
    /\ category_stats' = get_category_statistics(file_infos)
    /\ category_counts' = get_file_count_by_category(file_infos)
    /\ dominant_category' = get_dominant_category(file_infos)
    /\ UNCHANGED <<environment, options, arguments, scanner, enumeration,
                   categories, registered, classified, file_infos,
                   pc, queue, thread, finished, raised, results, interrupted, outcome,
                   returned, error_log, log_file, caller, scanned>>

\* scan() is called: the strategy starts list(get_all_directories(target)),
\* which counts and yields the root (lines 123-125).  The list is built by
\* the calling thread alone, so a failure of the root's loop is handled in
\* the same step.
StartScan ==
    /\ pc = "idle"
    /\ made = "ScanOptions"
    /\ pc' = "enumerate"
    /\ total_directories' = total_directories + 1
    /\ all_directories' = <<Root>>
    /\ stack' = DropExhausted(<<Descend(Root)>>)
    /\ error_directories' = RecordTraversal(Root)
    /\ UNCHANGED <<environment, classifier, options, arguments,
                   total_files, total_size, all_files, queue, thread, finished, raised,
                   results, interrupted, outcome, returned, error_log, log_file, caller,
                   scanned>>

\* The generator yields the next directory: the first one left in the
\* innermost frame (lines 128-129, then 124-125 of the recursive call).
EnumerateNext ==
    /\ pc = "enumerate"
    /\ stack # <<>>
    /\ LET top == stack[Len(stack)]
           subdirectory == Head(top)
           rest == [stack EXCEPT ![Len(stack)] = Tail(top)]
       IN /\ total_directories' = total_directories + 1
          /\ all_directories' = Append(all_directories, subdirectory)
          /\ stack' = DropExhausted(Append(rest, Descend(subdirectory)))
          /\ error_directories' = RecordTraversal(subdirectory)
    /\ UNCHANGED <<environment, classifier, options, arguments,
                   total_files, total_size, all_files, pc, queue, thread,
                   finished, raised, results, interrupted, outcome, returned,
                   error_log, log_file, caller, scanned>>

\* The generator is exhausted: the sequential loop starts over the list
\* (line 157), or every directory is submitted to the pool (lines 197-200).
EnumerateDone ==
    /\ pc = "enumerate"
    /\ stack = <<>>
    /\ pc' = "scan"
    /\ queue' = all_directories
    /\ UNCHANGED <<environment, classifier, options, arguments, scanner, enumeration,
                   thread, finished, raised, results, interrupted, outcome, returned,
                   error_log, log_file, caller, scanned>>

\* scan_single_directory returns result in thread w: the sequential loop
\* filters and appends it (lines 161-162); a worker's future completes.
Deliver(w, result) ==
    /\ thread' = [thread EXCEPT ![w] = Idle]
    /\ UNCHANGED raised
    /\ scanned' = scanned \cup {result}
    /\ IF w = 0
       THEN /\ results' = ApplySizeFilter(results, result)
            /\ UNCHANGED finished
       ELSE /\ finished' = finished \cup {result}
            /\ UNCHANGED results

\* The file loop skips a file that the extension filter rejects (lines
\* 75-77): the position of the next round at or after pos that does more.
RECURSIVE NextRound(_, _, _)
NextRound(d, files, pos) ==
    IF pos > Len(files) \/ fail_at = [dir |-> d, k |-> pos]
       \/ PassesExtensionFilter(files[pos])
    THEN pos
    ELSE NextRound(d, files, pos + 1)

\* Thread w takes the next directory; scan_single_directory probes it (lines
\* 58-68) and enters the file loop, which ends at once when no round is left
\* (lines 74, 91-96).  Idle workers are interchangeable: the one with the
\* lowest number takes the task.
TakeDirectory(w) ==
    /\ pc \in {"scan", "shutdown"}
    /\ w \in ScanThreads
    /\ thread[w].at = "idle"
    /\ \A v \in ScanThreads : v < w => thread[v].at # "idle"
    /\ queue # <<>>
    /\ queue' = Tail(queue)
    /\ LET directory == Head(queue)
           files == get_direct_files(directory)
           pos == NextRound(directory, files, 1)
       IN IF ~is_accessible_directory(directory)
          THEN /\ error_directories' = Append(error_directories, directory)
               /\ Deliver(w, DirectoryInfo(directory, 0, 0,
                                 "Permission denied or directory inaccessible"))
          ELSE IF pos > Len(files)
          THEN /\ Deliver(w, DirectoryInfo(directory, 0, 0, NoError))
               /\ UNCHANGED error_directories
          ELSE /\ thread' = [thread EXCEPT ![w] =
                      [at |-> "file", dir |-> directory, pos |-> pos,
                       total_size |-> 0, file_count |-> 0, reg |-> 0]]
               /\ UNCHANGED <<error_directories, finished, raised, results, scanned>>
    /\ UNCHANGED <<environment, classifier, options, arguments, total_directories,
                   total_files, total_size, all_files, pc, enumeration,
                   interrupted, outcome, returned, error_log, log_file, caller>>

\* A handler that reports what the loop had summed before the failure.
FailureRecordWithPartialSums(t) ==
    DirectoryInfo(t.dir, t.total_size, t.file_count, "Exception")

\* The record the handler of an unexpected failure returns (lines 106-112);
\* t is the state of the call.
FailureRecord(t) == DirectoryInfo(t.dir, 0, 0, "Exception")

\* The handler of line 98 raises in thread w while it handles the failure of
\* the call t: before or after the append of line 105.  Nothing is returned.
\* The sequential loop lets the exception unwind to scan(); a worker's future
\* completes holding the exception.
HandlerRaises(w, t) ==
    /\ error_directories' = IF handler_raises = "after_append"
                            THEN Append(error_directories, t.dir)
                            ELSE error_directories
    /\ IF w = 0
       THEN /\ thread' = [thread EXCEPT ![w] = [t EXCEPT !.at = "raise"]]
            /\ UNCHANGED raised
       ELSE /\ thread' = [thread EXCEPT ![w] = Idle]
            /\ raised' = raised \cup {t.dir}
    /\ UNCHANGED <<finished, results, scanned>>

\* One round of the file loop up to all_files.append and the read of
\* self.total_files (lines 79-88), or the handler of an unexpected failure
\* of the round (lines 98-112).
NextFile(w) ==
    /\ pc \in {"scan", "shutdown"}
    /\ thread[w].at = "file"
    /\ LET t == thread[w]
           file == get_direct_files(t.dir)[t.pos]
           file_size == safe_get_file_size(file)
       IN IF fail_at = [dir |-> t.dir, k |-> t.pos]
          THEN /\ IF handler_raises = "no"
                  THEN /\ error_directories' = Append(error_directories, t.dir)
                       /\ Deliver(w, FailureRecord(t))
                  ELSE HandlerRaises(w, t)
               /\ UNCHANGED all_files
          ELSE /\ all_files' = Append(all_files,
                     classify_file_with_info(t.dir, file, file_size))
               /\ thread' = [thread EXCEPT ![w] =
                     [t EXCEPT !.at = "store_files",
                               !.reg = total_files,
                               !.total_size = t.total_size + file_size,
                               !.file_count = t.file_count + 1]]
               /\ UNCHANGED <<error_directories, finished, raised, results, scanned>>
    /\ UNCHANGED <<environment, classifier, options, arguments, total_directories,
                   total_files, total_size, pc, enumeration, queue,
                   interrupted, outcome, returned, error_log, log_file, caller>>

\* self.total_files += 1 (line 88) is a read of the attribute followed by a
\* write of the incremented value; NextFile made the read.  This is the
\* write, followed by the read of self.total_size += file_size (line 89).
StoreTotalFiles(w) ==
    /\ pc \in {"scan", "shutdown"}
    /\ thread[w].at = "store_files"
    /\ total_files' = thread[w].reg + 1
    /\ thread' = [thread EXCEPT ![w].at = "store_size", ![w].reg = total_size]
    /\ UNCHANGED <<environment, classifier, options, arguments, error_directories,
                   total_directories, total_size, all_files, pc, enumeration,
                   queue, finished, raised, results, interrupted, outcome, returned,
                   error_log, log_file, caller, scanned>>

\* The write of self.total_size += file_size (line 89); the loop goes on to
\* its next round, or ends and the record is returned (lines 91-96).
StoreTotalSize(w) ==
    /\ pc \in {"scan", "shutdown"}
    /\ thread[w].at = "store_size"
    /\ LET t == thread[w]
           files == get_direct_files(t.dir)
           pos == NextRound(t.dir, files, t.pos + 1)
       IN /\ total_size' = t.reg + safe_get_file_size(files[t.pos])
          /\ IF pos > Len(files)
             THEN Deliver(w, DirectoryInfo(t.dir, t.total_size, t.file_count, NoError))
             ELSE /\ thread' = [thread EXCEPT ![w].at = "file", ![w].pos = pos]
                  /\ UNCHANGED <<finished, raised, results, scanned>>
    /\ UNCHANGED <<environment, classifier, options, arguments, error_directories,
                   total_directories, total_files, all_files, pc, enumeration,
                   queue, interrupted, outcome, returned, error_log, log_file, caller>>

\* A collection that appends every completed result, whatever its size.
CollectEveryResult ==
    /\ pc = "scan"
    /\ \E result \in finished :
          /\ finished' = finished \ {result}
          /\ results' = Append(results, result)
    /\ UNCHANGED raised
    /\ UNCHANGED <<environment, classifier, options, arguments, scanner, pc, enumeration,
                   queue, thread, interrupted, outcome, returned, error_log, log_file,
                   caller, scanned>>

\* as_completed hands the calling thread a completed future; its result is
\* filtered and appended (lines 203-209).
Collect ==
    /\ pc = "scan"
    /\ \E result \in finished :
          /\ finished' = finished \ {result}
          /\ results' = ApplySizeFilter(results, result)
    /\ UNCHANGED raised
    /\ UNCHANGED <<environment, classifier, options, arguments, scanner, pc, enumeration,
                   queue, thread, interrupted, outcome, returned, error_log, log_file,
                   caller, scanned>>

\* A collection that gives up at the first future that holds an exception:
\* the exception leaves the with block, which waits for the workers, and
\* reaches scan().
CollectOrFail ==
    /\ pc = "scan"
    /\ raised # {}
    /\ queue = <<>>
    /\ \A w \in 0..MaxWorkers : thread[w].at = "idle"
    /\ pc' = "done"
    /\ outcome' = "Exception"
    /\ UNCHANGED <<environment, classifier, options, arguments, scanner, enumeration,
                   queue, thread, finished, raised, results, interrupted, returned,
                   error_log, log_file, caller, scanned>>

\* as_completed hands the calling thread a completed future whose result()
\* raises; the handler of line 214 logs the directory and the loop goes on
\* (lines 203-219).
CollectFailure ==
    /\ pc = "scan"
    /\ \E directory \in raised : raised' = raised \ {directory}
    /\ UNCHANGED <<environment, classifier, options, arguments, scanner, pc, enumeration,
                   queue, thread, finished, results, interrupted, outcome, returned,
                   error_log, log_file, caller, scanned>>

\* An exception leaves the sequential strategy: scan() logs it and raises it
\* again (lines 258-260); nothing is returned.
ExceptException ==
    /\ pc = "scan"
    /\ thread[0].at = "raise"
    /\ pc' = "done"
    /\ outcome' = "Exception"
    /\ thread' = [thread EXCEPT ![0] = Idle]
    /\ UNCHANGED <<environment, classifier, options, arguments, scanner, enumeration,
                   queue, finished, raised, results, interrupted, returned,
                   error_log, log_file, caller, scanned>>

\* A strategy that returns as soon as every directory was taken.
EveryDirectoryTaken == queue = <<>>

\* Every directory was scanned and every result collected.
StrategyDone ==
    /\ queue = <<>>
    /\ finished = {}
    /\ raised = {}
    /\ \A w \in 0..MaxWorkers : thread[w].at = "idle"

\* A scan() that asks for the error log after every strategy.
AlwaysWriteErrorLog(paths) == TRUE

\* The condition of line 249: the error list is not empty.
ErrorLogRequested(paths) == paths # <<>>

\* write_error_log (utils.py lines 258-275): the file is written, or open()
\* or a write raises and the handler of line 271 logs and returns.
write_error_log(paths) ==
    /\ error_log' = paths
    /\ log_file' \in {"written", "failed"}

\* The strategy returns; scan() sorts, writes the error log and returns
\* (lines 245-253).
ReturnResults ==
    /\ pc = "scan"
    /\ StrategyDone
    /\ pc' = "done"
    /\ outcome' = "returned"
    /\ returned' = SortBySizeDesc(results)
    /\ IF ErrorLogRequested(error_directories)
       THEN write_error_log(error_directories)
       ELSE UNCHANGED <<error_log, log_file>>
    /\ UNCHANGED <<environment, classifier, options, arguments, scanner, enumeration,
                   queue, thread, finished, raised, results, interrupted, caller,
                   scanned>>

\* A handler that swallows the interrupt and returns the records so far.
ReturnPartialResults ==
    /\ outcome' = "returned"
    /\ returned' = SortBySizeDesc(results)

\* What scan() does with a KeyboardInterrupt that reaches it: it logs and
\* re-raises (lines 255-257); nothing is returned.
ExceptKeyboardInterrupt ==
    /\ outcome' = "KeyboardInterrupt"
    /\ UNCHANGED returned

\* Ctrl-C: KeyboardInterrupt is raised in the thread that called scan().  It
\* is no Exception, so line 98 does not catch it.  In the sequential strategy
\* and during the enumeration it unwinds to scan().  Inside the with block of
\* the parallel strategy it first runs ThreadPoolExecutor.__exit__, that is
\* shutdown(wait=True).
KeyboardInterrupt ==
    /\ pc \in {"enumerate", "scan"}
    /\ interrupted' = TRUE
    /\ IF pc = "scan" /\ ParallelMode
       THEN /\ pc' = "shutdown"
            /\ UNCHANGED <<outcome, returned, thread>>
       ELSE /\ pc' = "done"
            /\ ExceptKeyboardInterrupt
            /\ thread' = [thread EXCEPT ![0] = Idle]
    /\ UNCHANGED <<environment, classifier, options, arguments, scanner, enumeration,
                   queue, finished, raised, results, error_log, log_file, caller, scanned>>

\* shutdown(wait=True) returns once the workers have run every submitted
\* task; the KeyboardInterrupt then reaches scan().
ShutdownDone ==
    /\ pc = "shutdown"
    /\ queue = <<>>
    /\ \A w \in 0..MaxWorkers : thread[w].at = "idle"
    /\ pc' = "done"
    /\ ExceptKeyboardInterrupt
    /\ UNCHANGED <<environment, classifier, options, arguments, scanner, enumeration,
                   queue, thread, finished, raised, results, interrupted,
                   error_log, log_file, caller, scanned>>

\* create_scan_statistics (lines 273-283).
create_scan_statistics ==
    [total_directories |-> total_directories,
     total_files |-> total_files,
     total_size_bytes |-> total_size,
     category_breakdown |-> get_category_statistics(all_files),
     file_count_by_category |-> get_file_count_by_category(all_files)]

\* main() after scan() returned (main.py lines 115-135).
MainReport ==
    /\ pc = "done"
    /\ outcome = "returned"
    /\ pc' = "exit"
    /\ statistics' = create_scan_statistics
    /\ error_count' = Len(error_directories)
    /\ exit_code' = 0
    /\ UNCHANGED <<environment, classifier, options, arguments, scanner, enumeration,
                   queue, thread, finished, raised, results, interrupted, outcome,
                   returned, error_log, log_file, sequential_results, rerun, first_call,
                   scanned>>

\* main() when scan() raised KeyboardInterrupt (main.py lines 121-123).
MainInterrupted ==
    /\ pc = "done"
    /\ outcome = "KeyboardInterrupt"
    /\ pc' = "exit"
    /\ exit_code' = 1
    /\ UNCHANGED <<environment, classifier, options, arguments, scanner, enumeration,
                   queue, thread, finished, raised, results, interrupted, outcome,
                   returned, error_log, log_file, statistics, error_count,
                   sequential_results, rerun, first_call,
                   scanned>>

\* test_parallel_scanning, lines 209-213: after a sequential scan returned, a
\* new scanner is constructed over the same options, to be scanned in
\* parallel.
FreshParallelScan ==
    /\ pc = "done"
    /\ outcome = "returned"
    /\ ~ParallelMode
    /\ ~rerun
    /\ rerun' = TRUE
    /\ sequential_results' = returned
    /\ use_parallel' = TRUE
    /\ max_workers' \in 2..MaxWorkers
    /\ error_directories' = <<>>
    /\ total_directories' = 0
    /\ total_files' = 0
    /\ total_size' = 0
    /\ all_files' = <<>>
    /\ pc' = "idle"
    /\ all_directories' = <<>>
    /\ results' = <<>>
    /\ scanned' = {}
    /\ outcome' = "none"
    /\ returned' = <<>>
    /\ UNCHANGED <<environment, classifier, options, stack, queue, thread, finished, raised,
                   interrupted, error_log, log_file, statistics, error_count,
                   exit_code, first_call>>

\* scan() is called a second time on the same DirectoryScanner after the
\* first call returned: nothing resets the scanner's fields (they are set in
\* __init__ only), the strategy starts with fresh local lists.
ScanAgain ==
    /\ pc = "done"
    /\ outcome = "returned"
    /\ ~first_call.called
    /\ first_call' =
          [called |-> TRUE, returned |-> returned,
           error_directories |-> error_directories,
           total_directories |-> total_directories, total_files |-> total_files,
           total_size |-> total_size, all_files |-> all_files]
    /\ pc' = "idle"
    /\ all_directories' = <<>>
    /\ results' = <<>>
    /\ scanned' = {}
    /\ outcome' = "none"
    /\ returned' = <<>>
    /\ UNCHANGED <<environment, classifier, options, arguments, scanner, stack,
                   queue, thread, finished, raised, interrupted, error_log, log_file, statistics,
                   error_count, exit_code, sequential_results, rerun>>

\* ---------------------------------------------------------- specifications

ScanStep ==
    \/ StartScan
    \/ EnumerateNext
    \/ EnumerateDone
    \/ \E w \in 0..MaxWorkers : TakeDirectory(w)
    \/ \E w \in 0..MaxWorkers : NextFile(w)
    \/ \E w \in 0..MaxWorkers : StoreTotalFiles(w)
    \/ \E w \in 0..MaxWorkers : StoreTotalSize(w)
    \/ Collect
    \/ ReturnResults

\* One scan that runs to its end, and the caller's statistics.
Next == ScanStep \/ MainReport

Spec == Init /\ [][Next]_vars

\* A sequential scan, then a parallel scan of the same tree on a new scanner.
InitModes ==
    /\ InitScan
    /\ handler_raises = "no"
    /\ vanished = {}
    /\ nested_in = 3
    /\ hidden = {}
    /\ traverse_fail = 0
    /\ ~ParallelMode
    /\ Workload <= MaxParallelFiles

NextModes == ScanStep \/ FreshParallelScan

SpecModes == InitModes /\ [][NextModes]_vars

\* One scan that the user may interrupt.
InitInterrupt ==
    /\ Init
    /\ min_size_bytes = 0

NextInterrupt ==
    \/ ScanStep
    \/ KeyboardInterrupt
    \/ ShutdownDone
    \/ MainReport
    \/ MainInterrupted

SpecInterrupt == InitInterrupt /\ [][NextInterrupt]_vars

\* One scan of the test suite's tree without filters, in either mode, with
\* at most one fault.
InitSample ==
    /\ InitScan
    /\ handler_raises = "no"
    /\ vanished = {}
    /\ extra_files = 0
    /\ nested_in = 3
    /\ hidden = {}
    /\ traverse_fail = 0
    /\ min_size_bytes = 0
    /\ extension_filter = {}

SpecSample == InitSample /\ [][Next]_vars

\* The construction of a ScanOptions from any combination of field values
\* over the intact sample tree.
InitOptions ==
    /\ extra_files = 0
    /\ denied = {}
    /\ eager_iterdir = FALSE
    /\ fail_at = NoFailure
    /\ handler_raises = "no"
    /\ vanished = {}
    /\ nested_in = 3
    /\ hidden = {}
    /\ traverse_fail = 0
    /\ target_path \in {"missing", "file", "dir"}
    /\ include_hidden \in BOOLEAN
    /\ min_size_bytes \in {-1, 0, 4000}
    /\ top_count \in {-1, 0, 1, 50}
    /\ output_format \in {"text", "csv", "json", "xml"}
    /\ extension_filter \in {{}, {".jpg", ".pdf"}, {"JPG", ".PDF"}}
    /\ made = "pending"
    /\ use_parallel = TRUE
    /\ max_workers = MaxWorkers
    /\ DefaultClassifier
    /\ NotStarted

NextOptions == post_init

SpecOptions == InitOptions /\ [][NextOptions]_vars

\* One scan of the sample tree in which one file is gone when it is sized.
InitVanish ==
    /\ InitScan
    /\ handler_raises = "no"
    /\ vanished # {}
    /\ extra_files = 0
    /\ nested_in = 3
    /\ hidden = {}
    /\ traverse_fail = 0
    /\ min_size_bytes = 0
    /\ ParallelMode => Workload <= MaxParallelFiles

SpecVanish == InitVanish /\ [][Next]_vars

\* One scan in which a file fails and the handler of the failure raises.
InitCollect ==
    /\ InitScan
    /\ handler_raises # "no"
    /\ vanished = {}
    /\ nested_in = 3
    /\ hidden = {}
    /\ traverse_fail = 0
    /\ extra_files = 0

NextCollect == Next \/ CollectFailure \/ ExceptException

SpecCollect == InitCollect /\ [][NextCollect]_vars

\* One parallel scan in which every thread that can take a step eventually
\* takes one: the workers and the calling thread are scheduled by the
\* operating system, and no step of a task blocks.
InitFanOut ==
    /\ Init
    /\ ParallelMode
    /\ extra_files = 0
    /\ traverse_fail = 0
    /\ extension_filter # {}

SpecFanOut == InitFanOut /\ [][Next]_vars /\ WF_vars(Next)

\* Two scan() calls on one scanner over the sample tree, without threshold.
InitRepeat ==
    /\ Init
    /\ extra_files = 0
    /\ traverse_fail = 0
    /\ min_size_bytes = 0

NextRepeat == ScanStep \/ ScanAgain

SpecRepeat == InitRepeat /\ [][NextRepeat]_vars

\* The intact sample tree and a valid ScanOptions; scan() is not called.
InitIdle ==
    /\ extra_files = 0
    /\ denied = {}
    /\ eager_iterdir = FALSE
    /\ fail_at = NoFailure
    /\ handler_raises = "no"
    /\ vanished = {}
    /\ nested_in = 3
    /\ hidden = {}
    /\ traverse_fail = 0
    /\ include_hidden = TRUE
    /\ min_size_bytes = 0
    /\ extension_filter = {}
    /\ use_parallel = TRUE
    /\ max_workers = MaxWorkers
    /\ target_path = "dir"
    /\ top_count = 50
    /\ output_format = "text"
    /\ made = "ScanOptions"
    /\ NotStarted

\* The names and extension sets custom categories are registered with.
CustomNames == {"photos", "images"}

CustomExtensions == {{".jpg"}, {"XYZ"}, {".xyz", ".JPG"}}

\* The suffixes of the classified paths.
Suffixes == {".jpg", ".JPG", ".png", ".PNG", ".xyz", ".XYZ", ".exe", ".txt", ".dat"}

\* A ContentClassifier constructed without or with one custom category (the
\* constructor stores the set as it is given), then any registrations and
\* classifications.
InitClassifier ==
    /\ InitIdle
    /\ \/ /\ categories = CATEGORY_MAPPINGS
          /\ registered = NoRegistration
       \/ \E name \in CustomNames, extensions \in CustomExtensions :
             /\ categories = SetItem(CATEGORY_MAPPINGS, name, extensions)
             /\ registered = [category |-> name, extensions |-> extensions,
                              by |-> "constructor"]
    /\ classified = NoClassification
    /\ file_infos = <<>>
    /\ category_stats = NotAggregated
    /\ category_counts = NotAggregated
    /\ dominant_category = ""

NextClassifier ==
    \/ \E name \in CustomNames, extensions \in CustomExtensions :
          add_custom_category(name, extensions)
    \/ \E suffix \in Suffixes : Classify(suffix)

SpecClassifier == InitClassifier /\ [][NextClassifier]_vars

\* The FileInfo records the lists are made of.
SampleInfos ==
    {[path |-> <<1, "file">>, size_bytes |-> size, extension |-> ext,
      category |-> FirstCategory(CATEGORY_MAPPINGS, ext, 1)] :
        size \in {0, 5000}, ext \in {".jpg", ".py", ".dat"}}

RECURSIVE ListsUpTo(_)
ListsUpTo(n) ==
    IF n = 0 THEN {<<>>}
    ELSE LET shorter == ListsUpTo(n - 1)
         IN shorter \cup {Append(list, info) : list \in shorter, info \in SampleInfos}

\* The aggregations over any list of at most MaxListLen records.
InitAggregate ==
    /\ InitIdle
    /\ categories = CATEGORY_MAPPINGS
    /\ registered = NoRegistration
    /\ classified = NoClassification
    /\ file_infos \in ListsUpTo(MaxListLen)
    /\ category_stats = NotAggregated
    /\ category_counts = NotAggregated
    /\ dominant_category = ""

NextAggregate == Aggregate

SpecAggregate == InitAggregate /\ [][NextAggregate]_vars

\* list(get_all_directories(target_path)) alone, over both layouts of the
\* tree with any directories hidden or unlistable.  The calling thread is
\* the only one and keeps running.
InitWalk ==
    /\ extra_files = 0
    /\ eager_iterdir = FALSE
    /\ fail_at = NoFailure
    /\ handler_raises = "no"
    /\ vanished = {}
    /\ nested_in \in {2, 3}
    /\ denied \in SUBSET Dirs
    /\ hidden \in SUBSET Dirs
    /\ include_hidden \in BOOLEAN
    /\ traverse_fail \in {0} \cup {d \in Dirs : Children(d) # <<>>}
    /\ min_size_bytes = 0
    /\ extension_filter = {}
    /\ use_parallel = FALSE
    /\ max_workers = 1
    /\ InitProgram

NextWalk == StartScan \/ EnumerateNext \/ EnumerateDone

SpecWalk == InitWalk /\ [][NextWalk]_vars /\ WF_vars(NextWalk)

\* ------------------------------------------------------------- properties

\* Reference values, computed from the tree and the options alone.
InFilter(file) == extension_filter = {} \/ Lower(file.suffix) \in extension_filter

AcceptedOnDisk(d) == SelectSeq(DiskFiles(d), InFilter)

RECURSIVE SumStSize(_)
SumStSize(files) ==
    IF files = <<>> THEN 0 ELSE Head(files).st_size + SumStSize(Tail(files))

RECURSIVE SumSizeBytes(_)
SumSizeBytes(infos) ==
    IF infos = <<>> THEN 0 ELSE Head(infos).size_bytes + SumSizeBytes(Tail(infos))

RECURSIVE SumValues(_)
SumValues(dict) ==
    IF DOMAIN dict = {} THEN 0
    ELSE LET c == CHOOSE x \in DOMAIN dict : TRUE
         IN dict[c] + SumValues([x \in (DOMAIN dict) \ {c} |-> dict[x]])

\* The directory can be listed and no unexpected failure is set for it.
ScannedWithoutError(d) == d \notin denied /\ fail_at.dir # d

Triples(list) == {<<r.path, r.size_bytes, r.file_count>> : r \in Range(list)}

\* C1: every record of a directory scanned without error has as size_bytes
\* the summed sizes of the accepted files directly in that directory and as
\* file_count their number; files of subdirectories add nothing.
C1_DirectOnlySizing ==
    \A r \in scanned :
        ScannedWithoutError(r.path) =>
            /\ r.size_bytes = SumStSize(AcceptedOnDisk(r.path))
            /\ r.file_count = Len(AcceptedOnDisk(r.path))
            /\ r.error_message = NoError

\* The root was scanned with both of its subdirectories holding accepted
\* files, and its record counts its own file only.
C1_Witness ==
    /\ outcome = "returned"
    /\ extension_filter = {}
    /\ \E r \in Range(returned) :
          r.path = Root /\ r.size_bytes = 1000 /\ r.file_count = 1
    /\ \E r \in Range(returned) : r.path = 2 /\ r.size_bytes = 8000
    /\ \E r \in Range(returned) : r.path = 3 /\ r.size_bytes = 10000

\* C2: the parallel scan of a fresh scanner returns the same (path,
\* size_bytes, file_count) triples as the sequential scan of the same tree
\* and options, whatever the order in which the tasks complete.
C2_ModeEquivalence ==
    (rerun /\ outcome = "returned") =>
        /\ Triples(returned) = Triples(sequential_results)
        /\ Len(returned) = Len(sequential_results)

\* Both scans returned several records and the parallel scan returned them
\* in another order than the sequential scan.
C2_Witness ==
    /\ rerun
    /\ outcome = "returned"
    /\ max_workers >= 2
    /\ Len(returned) >= 3
    /\ returned # sequential_results

\* C3: after a parallel scan with two or more workers of a tree without
\* faults, total_files and total_size are the number and the summed sizes of
\* all accepted files, for every interleaving of the workers' steps.
C3_NoLostIncrement ==
    (ParallelMode /\ outcome = "returned" /\ denied = {} /\ fail_at = NoFailure) =>
        /\ total_files = Len(all_files)
        /\ total_size = SumSizeBytes(all_files)

\* C4: in the statistics of a completed scan without extension filter, the
\* values of category_breakdown sum to total_size_bytes and those of
\* file_count_by_category to total_files.
C4_CategoryConservation ==
    (pc = "exit" /\ exit_code = 0 /\ extension_filter = {}) =>
        /\ SumValues(statistics.category_breakdown) = statistics.total_size_bytes
        /\ SumValues(statistics.file_count_by_category) = statistics.total_files

\* C5: the returned list holds exactly the scanned records of size at least
\* min_size_bytes; the accepted files of a directory left out are in
\* all_files all the same, and total_files and total_size count them (they
\* are the number and the summed sizes of the files of all_files).
C5_ThresholdFilter ==
    outcome = "returned" =>
        /\ \A r \in Range(returned) : r.size_bytes >= min_size_bytes
        /\ \A r \in scanned :
              (r.size_bytes >= min_size_bytes) <=> (r \in Range(returned))
        /\ \A r \in scanned :
              (r.size_bytes < min_size_bytes /\ r.file_count > 0) =>
                  /\ \A i \in 1..Len(AcceptedOnDisk(r.path)) :
                        \E f \in Range(all_files) :
                            f.path = <<r.path, AcceptedOnDisk(r.path)[i].name>>
                  /\ total_files = Len(all_files)
                  /\ total_size = SumSizeBytes(all_files)

\* C6 as stated: under a non-empty extension filter every directory's record
\* has the summed sizes and the number of its direct files whose lowercased
\* extension is in the filter, and only such files reach all_files and the
\* totals.
C6_EveryDirectory ==
    extension_filter # {} =>
        /\ \A r \in scanned :
              /\ r.size_bytes = SumStSize(AcceptedOnDisk(r.path))
              /\ r.file_count = Len(AcceptedOnDisk(r.path))
        /\ \A f \in Range(all_files) : f.extension \in extension_filter
        /\ total_files <= Len(all_files)
        /\ total_size <= SumSizeBytes(all_files)

\* C6 amended: under a non-empty extension filter the record of every
\* directory scanned without error has the summed sizes and the number of its
\* direct files whose lowercased extension is in the filter, every other
\* record has size 0 and count 0, and only files whose lowercased extension
\* is in the filter reach all_files and the totals.
C6_ExtensionFilter ==
    extension_filter # {} =>
        /\ \A r \in scanned :
              IF ScannedWithoutError(r.path)
              THEN /\ r.size_bytes = SumStSize(AcceptedOnDisk(r.path))
                   /\ r.file_count = Len(AcceptedOnDisk(r.path))
              ELSE r.size_bytes = 0 /\ r.file_count = 0
        /\ \A f \in Range(all_files) : f.extension \in extension_filter
        /\ total_files <= Len(all_files)
        /\ total_size <= SumSizeBytes(all_files)

\* Under the filter the root, holding root.txt and PHOTO.JPG, was scanned:
\* its record counts PHOTO.JPG alone, which is also the only file of the
\* root in all_files.
C6_Witness ==
    /\ extension_filter = {".jpg", ".pdf"}
    /\ extra_files = 1
    /\ outcome = "returned"
    /\ \E r \in scanned : r.path = Root /\ r.size_bytes = 7000 /\ r.file_count = 1
    /\ \E f \in Range(all_files) : f.path = <<Root, "PHOTO">>
    /\ \A f \in Range(all_files) : f.path # <<Root, "root">>

\* C7: the list scan() returns is non-increasing in size_bytes.
C7_SortInvariant ==
    outcome = "returned" =>
        \A i \in 1..(Len(returned) - 1) :
            returned[i].size_bytes >= returned[i + 1].size_bytes

\* A parallel scan returned at least three records of different sizes, and
\* the strategy had produced them in another order.
C7_Witness ==
    /\ outcome = "returned"
    /\ ParallelMode
    /\ Len(returned) >= 3
    /\ returned[1].size_bytes > returned[Len(returned)].size_bytes
    /\ returned # results

\* C8: with min_size_bytes = 0 and exactly one subdirectory that cannot be
\* listed, every other enumerated directory has a record with the size and
\* count of its accepted files, and the denied directory has a record with
\* an error, size 0 and count 0.
C8_InaccessibleIsolation ==
    (outcome = "returned" /\ min_size_bytes = 0 /\ denied # {}) =>
        /\ \A d \in Range(all_directories) \ denied :
              \E r \in Range(returned) :
                  /\ r.path = d
                  /\ r.size_bytes = SumStSize(AcceptedOnDisk(d))
                  /\ r.file_count = Len(AcceptedOnDisk(d))
        /\ \A d \in denied :
              \E r \in Range(returned) :
                  /\ r.path = d
                  /\ r.error_message # NoError
                  /\ r.size_bytes = 0
                  /\ r.file_count = 0

\* C9: a record carries an error exactly when its directory could not be
\* listed or its scan raised an unexpected failure.
C9_ErrorIffNotListed ==
    \A r \in scanned :
        (r.error_message # NoError) <=> (r.path \in denied \/ fail_at.dir = r.path)

Occurrences(list, d) == Cardinality({i \in DOMAIN list : list[i] = d})

\* C11: when the scan of one directory raises an unexpected failure, its
\* record has size 0, count 0 and the failure as error, the directory is in
\* the error list once, every other record is what the tree and the options
\* determine for its directory, and scan() returns with every enumerated
\* directory scanned.
C11_FailureIsolation ==
    fail_at # NoFailure =>
        /\ \A r \in scanned :
              IF r.path = fail_at.dir
              THEN /\ r = DirectoryInfo(r.path, 0, 0, "Exception")
                   /\ Occurrences(error_directories, r.path) = 1
              ELSE r = DirectoryInfo(r.path, SumStSize(AcceptedOnDisk(r.path)),
                                     Len(AcceptedOnDisk(r.path)), NoError)
        /\ pc \in {"done", "exit"} =>
              /\ outcome = "returned"
              /\ {r.path : r \in scanned} = Dirs
              /\ Occurrences(error_directories, fail_at.dir) = 1

\* The scan of subdir1 failed at its second file, after image.jpg was
\* accepted, and scan() returned the records of all four directories.
C11_Witness ==
    /\ fail_at = [dir |-> 2, k |-> 2]
    /\ extension_filter = {}
    /\ min_size_bytes = 0
    /\ outcome = "returned"
    /\ Len(returned) = 4
    /\ \E f \in Range(all_files) : f.path = <<2, "image">>

\* The directory that holds d.
ParentOf(d) == CHOOSE p \in Dirs : d \in Range(Children(p))

RECURSIVE Ancestors(_)
Ancestors(d) == IF d = Root THEN {} ELSE {ParentOf(d)} \cup Ancestors(ParentOf(d))

\* The children of d can be listed and the loop over them does not raise.
Listable(d) == d \notin denied /\ traverse_fail # d

\* d is hidden and the hidden filter applies to it.
Filtered(d) == ~include_hidden /\ d \in hidden /\ d # Root

\* C12: with include_hidden false the enumeration yields no hidden directory
\* other than the root and no descendant of a filtered hidden directory; the
\* root comes first whether or not it is hidden; with include_hidden true no
\* directory is left out for being hidden.
C12_HiddenFilter ==
    /\ all_directories # <<>> => all_directories[1] = Root
    /\ ~include_hidden =>
          \A d \in Range(all_directories) \ {Root} :
              /\ d \notin hidden
              /\ \A a \in Ancestors(d) \ {Root} : a \notin hidden
    /\ include_hidden /\ pc = "scan" =>
          \A d \in Dirs :
              (\A a \in Ancestors(d) : Listable(a)) => d \in Range(all_directories)

C12_Witness ==
    /\ pc = "scan"
    /\ ~include_hidden
    /\ hidden = {Root, 3}
    /\ nested_in = 3
    /\ denied = {}
    /\ traverse_fail = 0
    /\ all_directories = <<1, 2>>

\* d is reachable from the root through directories whose children can be
\* listed and that the hidden filter keeps.
ReachableOnDisk(d) ==
    \/ d = Root
    \/ /\ ~Filtered(d)
       /\ \A a \in Ancestors(d) : a \notin denied /\ ~Filtered(a)

\* The root is first, no directory is yielded twice, each directory comes
\* after its parent, the directories below a directory follow it without a
\* gap, and the finished list holds every directory reachable on disk.
PreOrder ==
    /\ all_directories # <<>> => all_directories[1] = Root
    /\ \A i, j \in DOMAIN all_directories :
          i # j => all_directories[i] # all_directories[j]
    /\ \A j \in DOMAIN all_directories :
          all_directories[j] # Root =>
              \E i \in 1..(j - 1) : all_directories[i] = ParentOf(all_directories[j])
    /\ \A i, j, k \in DOMAIN all_directories :
          (i < j /\ j < k /\ all_directories[i] \in Ancestors(all_directories[k]))
              => all_directories[i] \in Ancestors(all_directories[j])
    /\ pc = "scan" => Range(all_directories) = {d \in Dirs : ReachableOnDisk(d)}

\* C13: get_all_directories terminates, and it yields the root first and
\* then every directory reachable through listable, non-filtered directories
\* exactly once, each after its parent, in depth-first pre-order.
C13_EnumerationOrder == []PreOrder /\ <>(pc = "scan")

\* C20: when the enumeration reaches a directory whose children cannot be
\* listed it yields nothing below it, appends its path to error_directories
\* and goes on with the siblings.
C20_EnumeratorInaccessible ==
    pc = "scan" /\ traverse_fail = 0 =>
        \A d \in Range(all_directories) \cap denied :
            /\ \A c \in Dirs : d \in Ancestors(c) => c \notin Range(all_directories)
            /\ d \in Range(error_directories)
            /\ \A sibling \in Dirs \ {Root} :
                  (d # Root /\ ParentOf(sibling) = ParentOf(d) /\ ~Filtered(sibling))
                      => sibling \in Range(all_directories)

\* C19: the error_count of the final outcome is the number of scanned
\* directories whose record has an error; no path occurs twice in the error
\* list and no path of an error-free directory occurs in it.
C19_ErrorCount ==
    pc = "exit" =>
        /\ error_count = Cardinality({r \in scanned : r.error_message # NoError})
        /\ \A d \in Dirs : Occurrences(error_directories, d) <= 1
        /\ \A r \in scanned :
              r.error_message = NoError => r.path \notin Range(error_directories)

\* C14: after one scan of the intact sample tree on a fresh scanner without
\* filters, total_directories is the number of directories enumerated,
\* total_files and total_size are the number and the summed sizes of their
\* direct files, the records are root (1000, 1), subdir1 (8000, 2),
\* subdir2 (10000, 1), nested (2000, 1), and the totals are 4 directories,
\* 5 files, 21000 bytes.
C14_GlobalTotals ==
    (outcome = "returned" /\ denied = {} /\ fail_at = NoFailure) =>
        /\ total_directories = Len(all_directories)
        /\ total_files = SumSeq([i \in DOMAIN all_directories |->
                                   Len(DiskFiles(all_directories[i]))])
        /\ total_size = SumSeq([i \in DOMAIN all_directories |->
                                  SumStSize(DiskFiles(all_directories[i]))])
        /\ Triples(returned) =
              {<<1, 1000, 1>>, <<2, 8000, 2>>, <<3, 10000, 1>>, <<4, 2000, 1>>}
        /\ total_directories = 4
        /\ total_files = 5
        /\ total_size = 21000

\* C15: the construction yields an object only if target_path is an existing
\* directory, top_count is positive, output_format is text, csv or json and
\* min_size_bytes is not negative.
C15_ConfigurationValidation ==
    made = "ScanOptions" =>
        /\ target_path = "dir"
        /\ top_count > 0
        /\ output_format \in {"text", "csv", "json"}
        /\ min_size_bytes >= 0

\* The category of the entry with the least index whose set holds the
\* lowercased suffix, "other" when there is none.
FirstHit(suffix) ==
    LET hits == {i \in DOMAIN categories : Lower(suffix) \in categories[i].extensions}
    IN IF hits = {} THEN "other"
       ELSE categories[CHOOSE i \in hits : \A j \in hits : i <= j].category

\* C16: classify_file returns the first category, in insertion order, whose
\* extension set holds the lowercased extension, and "other" when none does;
\* the result does not depend on the letter case of the extension.
C16_ClassificationRule ==
    /\ classified # NoClassification =>
          classified.category = FirstHit(classified.suffix)
    /\ \A suffix \in Suffixes : classify_file(suffix) = classify_file(Lower(suffix))

C16_Witness ==
    /\ classified = [suffix |-> ".exe", category |-> "archives"]
    /\ registered.by = "add_custom_category"
    /\ classify_file(".PNG") = "images"
    /\ classify_file(".dat") = "other"

\* C17: after a custom category c with extension set E was registered,
\* classify_file returns c for every file whose lowercased extension is in
\* the normalized E, whether or not a built-in category holds it too.
C17_CustomPrecedence ==
    (registered # NoRegistration /\ classified # NoClassification) =>
        (Lower(classified.suffix) \in
                {NormalizeExtension(ext) : ext \in registered.extensions}
            => classified.category = registered.category)

\* The map of get_category_statistics holds, for exactly the categories that
\* occur in the list, the summed sizes of their records, and the map of
\* get_file_count_by_category their number.
Aggregated ==
    category_stats # NotAggregated =>
        LET occurring == {file_infos[i].category : i \in DOMAIN file_infos}
        IN /\ DOMAIN category_stats = occurring
           /\ DOMAIN category_counts = occurring
           /\ \A c \in occurring :
                 LET records == SelectSeq(file_infos, LAMBDA info : info.category = c)
                 IN /\ category_stats[c] = SumSizeBytes(records)
                    /\ category_counts[c] = Len(records)

\* C18: get_category_statistics maps each category that occurs in the list
\* to the sum of size_bytes of its records and get_file_count_by_category to
\* their number, a category without a record is in neither map, and the list
\* is not changed.
C18_CategoryAggregation == []Aggregated /\ [][file_infos' = file_infos]_vars

C18_Witness ==
    /\ category_stats # NotAggregated
    /\ Len(file_infos) = 3
    /\ DOMAIN category_stats = {"images", "other"}
    /\ category_stats["images"] = 10000
    /\ category_counts["images"] = 2
    /\ category_stats["other"] = 0

\* The directories on disk in depth-first pre-order, as far as they can be
\* reached through directories that are traversed; no option but
\* include_hidden enters.
TraversedOnDisk ==
    SelectSeq(IF nested_in = 2 THEN <<1, 2, 4, 3>> ELSE <<1, 2, 3, 4>>,
              LAMBDA d : \/ d = Root
                         \/ /\ ~Filtered(d)
                            /\ \A a \in Ancestors(d) : Listable(a) /\ ~Filtered(a))

\* C21: the directories enumerated and scanned are the same for every value
\* of min_size_bytes and of extension_filter; the subdirectories of a
\* directory below the threshold are still enumerated and scanned.
C21_NoPruning ==
    /\ pc \notin {"idle", "enumerate"} => all_directories = TraversedOnDisk
    /\ outcome = "returned" =>
          /\ {r.path : r \in scanned} = Range(TraversedOnDisk)
          /\ Cardinality(scanned) = Len(TraversedOnDisk)

C21_Witness ==
    /\ outcome = "returned"
    /\ min_size_bytes = 4000
    /\ extension_filter # {}
    /\ extra_files = 0
    /\ denied = {}
    /\ fail_at = NoFailure
    /\ traverse_fail = 0
    /\ {r.path : r \in Range(returned)} = {2}
    /\ {r.path : r \in scanned} = Dirs

\* The place of the record of directory d in list (0: none).
IndexOf(list, d) ==
    IF \E i \in DOMAIN list : list[i].path = d
    THEN CHOOSE i \in DOMAIN list : list[i].path = d
    ELSE 0

\* C22: the list scan() returns is a permutation of the strategy's list, and
\* two records of equal size_bytes keep the order they had in that list.
C22_SortStability ==
    outcome = "returned" =>
        /\ Len(returned) = Len(results)
        /\ Range(returned) = Range(results)
        /\ \A i, j \in DOMAIN results :
              (i < j /\ results[i].size_bytes = results[j].size_bytes)
                  => IndexOf(returned, results[i].path) < IndexOf(returned, results[j].path)

C22_Witness ==
    /\ outcome = "returned"
    /\ returned # results
    /\ \E i, j \in DOMAIN results :
          /\ i < j
          /\ results[i].size_bytes = results[j].size_bytes
          /\ results[i].path > results[j].path

\* C23: once the interrupt has arrived in the parallel strategy no further
\* scan_single_directory task is started, and the calling thread can leave
\* the strategy without waiting for the tasks that are pending or running.
C23_Cancellation ==
    /\ [][(interrupted /\ ParallelMode) => queue' = queue]_vars
    /\ [](pc = "shutdown" => ENABLED ShutdownDone)

\* The summed sizes of the records of category c in file_infos, and the
\* place of its first record.
TotalOf(c) == SumSizeBytes(SelectSeq(file_infos, LAMBDA info : info.category = c))

FirstOf(c) ==
    CHOOSE i \in DOMAIN file_infos :
        /\ file_infos[i].category = c
        /\ \A j \in 1..(i - 1) : file_infos[j].category # c

\* C26: for a non-empty list get_dominant_category returns a category of
\* maximal total size, among several the one whose first file comes earliest;
\* for the empty list it returns "other".
C26_DominantCategory ==
    category_stats # NotAggregated =>
        IF file_infos = <<>> THEN dominant_category = "other"
        ELSE LET occurring == {file_infos[i].category : i \in DOMAIN file_infos}
             IN /\ dominant_category \in occurring
                /\ \A c \in occurring :
                      \/ TotalOf(c) < TotalOf(dominant_category)
                      \/ /\ TotalOf(c) = TotalOf(dominant_category)
                         /\ FirstOf(dominant_category) <= FirstOf(c)

C26_Witness ==
    /\ category_stats # NotAggregated
    /\ Len(file_infos) = 3
    /\ file_infos[1].category = "other"
    /\ file_infos[2].category = "code"
    /\ file_infos[3].category = "images"
    /\ file_infos[1].size_bytes = 0
    /\ file_infos[2].size_bytes = 5000
    /\ file_infos[3].size_bytes = 5000
    /\ dominant_category = "code"

\* C29: after a completed scan with min_size_bytes = 0 total_size is the sum
\* of size_bytes over the returned records and total_files the sum of their
\* file_count; a directory whose record carries an error has no FileInfo in
\* all_files.
C29_RecordsAgreeWithTotals ==
    (outcome = "returned" /\ min_size_bytes = 0) =>
        /\ total_size = SumSizeBytes(returned)
        /\ total_files = SumSeq([i \in DOMAIN returned |-> returned[i].file_count])
        /\ \A r \in Range(returned) :
              r.error_message # NoError =>
                  \A f \in Range(all_files) : f.path[1] # r.path

\* C30: a second scan() on the same scanner over the unchanged tree returns
\* the same (path, size_bytes, file_count) records as the first and leaves
\* total_directories, total_files, total_size, all_files and
\* error_directories as they were after the first call.
C30_RepeatableScan ==
    (first_call.called /\ outcome = "returned") =>
        /\ Triples(returned) = Triples(first_call.returned)
        /\ total_directories = first_call.total_directories
        /\ total_files = first_call.total_files
        /\ total_size = first_call.total_size
        /\ all_files = first_call.all_files
        /\ error_directories = first_call.error_directories

\* The accepted files of d whose stat() succeeds.
SizedOnDisk(d) == SelectSeq(AcceptedOnDisk(d), LAMBDA file : file.name \notin vanished)

\* C27: a direct file whose stat() fails adds 0 to its directory's
\* size_bytes and to total_size; the directory's record carries no error, its
\* path is not in the error list and its other files are still processed.
C27_VanishedFile ==
    /\ \A r \in scanned :
          ScannedWithoutError(r.path) =>
              /\ r = DirectoryInfo(r.path, SumStSize(SizedOnDisk(r.path)),
                                   Len(AcceptedOnDisk(r.path)), NoError)
              /\ r.path \notin Range(error_directories)
    /\ total_size <= SumSeq([i \in DOMAIN all_directories |->
                               SumStSize(SizedOnDisk(all_directories[i]))])
    /\ (outcome = "returned" /\ ~ParallelMode /\ fail_at = NoFailure) =>
          total_size = SumSeq([i \in DOMAIN returned |-> returned[i].size_bytes])

C27_Witness ==
    /\ outcome = "returned"
    /\ vanished = {"image"}
    /\ extension_filter = {}
    /\ denied = {}
    /\ fail_at = NoFailure
    /\ DirectoryInfo(2, 3000, 2, NoError) \in Range(returned)
    /\ error_directories = <<>>
    /\ \E f \in Range(all_files) : f.path = <<2, "document">>

\* C28: scan() asks for the error log exactly when the error list is not
\* empty once the strategy has finished, in the step that sorts and returns,
\* and hands over every recorded path in append order; a log that cannot be
\* written neither fails scan() nor changes the records it returns.
C28_ErrorLogTrigger ==
    /\ outcome # "returned" => log_file = "absent" /\ error_log = <<>>
    /\ outcome = "returned" =>
          /\ log_file # "absent" <=> error_directories # <<>>
          /\ error_log = error_directories
          /\ returned = SortBySizeDesc(results)

C28_Witness ==
    /\ outcome = "returned"
    /\ log_file = "failed"
    /\ ParallelMode
    /\ error_log = <<3>>
    /\ returned # <<>>

\* C24: in parallel mode a future whose result() raises is caught where the
\* results are collected; the strategy returns normally, every other
\* directory was scanned, and every other result was collected and filtered.
C24_TaskFailureAtCollection ==
    (ParallelMode /\ pc = "done") =>
        /\ outcome = "returned"
        /\ raised = {}
        /\ {r.path : r \in scanned} =
              Range(all_directories) \ (IF handler_raises = "no" THEN {} ELSE {fail_at.dir})
        /\ Cardinality(scanned) = Cardinality({r.path : r \in scanned})
        /\ Range(returned) = {r \in scanned : MeetsThreshold(r)}
        /\ Len(returned) = Cardinality(Range(returned))

C24_Witness ==
    /\ ParallelMode
    /\ max_workers = 2
    /\ outcome = "returned"
    /\ handler_raises = "before_append"
    /\ fail_at = [dir |-> 2, k |-> 1]
    /\ min_size_bytes = 0
    /\ {r.path : r \in Range(returned)} = Dirs \ {2}
    /\ error_directories = <<>>

\* The directories whose task a worker is running.
Running == {w \in 1..MaxWorkers : thread[w].at # "idle"}

\* Every enumerated directory is waiting, running or done, and only one of these.
ExactlyOneTask ==
    /\ Len(queue) + Cardinality(Running) + Cardinality(scanned) = Len(all_directories)
    /\ Range(queue) \cup {thread[w].dir : w \in Running} \cup {r.path : r \in scanned}
          = Range(all_directories)
    /\ Cardinality(Range(all_directories)) = Len(all_directories)

\* C25: in parallel mode every enumerated directory is submitted as exactly
\* one task; the strategy eventually returns, and only after every task has
\* completed; each record that meets the threshold is exactly once in the
\* result list, appended by the collecting thread after its task completed.
C25_ExactlyOnceFanOut ==
    /\ [](pc \in {"scan", "done"} =>
            /\ ExactlyOneTask
            /\ finished \subseteq scanned
            /\ Range(results) \subseteq scanned \ finished
            /\ Len(results) = Cardinality(Range(results)))
    /\ [](outcome = "returned" =>
            /\ Running = {} /\ queue = <<>> /\ finished = {}
            /\ Range(results) = {r \in scanned : MeetsThreshold(r)})
    /\ [][results' # results =>
            /\ thread' = thread
            /\ \E r \in finished : finished' = finished \ {r} /\ results' = Append(results, r)]_vars
    /\ <>(pc = "done" /\ outcome = "returned")

C25_Witness ==
    /\ ParallelMode
    /\ max_workers = 2
    /\ outcome = "returned"
    /\ min_size_bytes = 4000
    /\ extra_files = 0
    /\ fail_at = NoFailure
    /\ denied = {}
    /\ {r.path : r \in scanned} = Dirs
    /\ returned = <<DirectoryInfo(2, 8000, 2, NoError)>>

====
